---- MODULE Spec2Model ----
(***************************************************************************)
(* The upload pipeline of reefspect (src/src/controller.rs): one task per  *)
(* request walks the multipart fields, stages each field in a temporary    *)
(* file while feeding three digest accumulators, sniffs the content type,  *)
(* submits the staged region to the scan engine and polls the engine's     *)
(* event stream for the first Result event.  The shutdown handler of the   *)
(* same file takes the one-shot sender out of its mutex and fires it;      *)
(* shutdown_signal (src/src/main.rs) selects over Ctrl+C, SIGTERM and the  *)
(* receiving half of that channel.                                         *)
(*                                                                         *)
(* Option<T> is written as a sequence: None == <<>>, Some(x) == <<x>>.     *)
(* A digest accumulator is represented by the byte sequence it has         *)
(* absorbed so far; a finalized digest is that sequence tagged with the    *)
(* algorithm (the hash functions themselves are library code).             *)
(* clock is a logical clock: Utc::now() yields the number of earlier       *)
(* readings.                                                               *)
(*                                                                         *)
(* Operators named after an operator of the model with a suffix            *)
(* (PushFront, DropTmpLeak, ...) are faulty variants of it; the model does *)
(* not use them. They show which fault each property detects.              *)
(***************************************************************************)
EXTENDS Integers, Sequences, FiniteSets, TLC

VARIABLES req, fs, clock, cfg, shutdown_tx, oneshot, call, signal

vars == <<req, fs, clock, cfg, shutdown_tx, oneshot, call, signal>>

(* The state of the upload handler and the state of the shutdown handler:  *)
(* the two share nothing.                                                  *)
uploadVars == <<req, fs, clock>>
shutdownVars == <<cfg, shutdown_tx, oneshot, call, signal>>

-----------------------------------------------------------------------------
(* Bounds of the model: the requests, the inputs the environment may       *)
(* deliver to one request (fields, chunks, bytes, engine events), the      *)
(* capacity of the engine's event channel and the temporary-file names.    *)

NumReqs == 2
MaxInputs == 5
ChanCap == 1
NumPaths == 2
NumCallers == 3

(* Program constants. LIMIT is 8192 in detect_type; it is scaled here so   *)
(* that staged files of the model can be longer than the cap.              *)

LIMIT == 1
OK == 200
BAD_REQUEST == 400
INTERNAL_SERVER_ERROR == 500
NOT_FOUND == 404
ACCEPTED == 202

-----------------------------------------------------------------------------
(* Value sets *)

None == <<>>
Some(x) == <<x>>
IsSome(o) == Len(o) = 1
Unwrap(o) == o[1]

Reqs == 1..NumReqs
Byte == {0, 1}
Paths == 1..NumPaths
Utf8Paths == Paths \ {NumPaths}

RECURSIVE SeqsUpTo(_, _)
SeqsUpTo(S, n) ==
    IF n = 0 THEN {<<>>}
    ELSE LET shorter == SeqsUpTo(S, n - 1)
         IN  shorter \cup {Append(s, x) : s \in {t \in shorter : Len(t) = n - 1}, x \in S}

(* The disposition headers a multipart field can carry. *)
Fields ==
    { [file_name |-> Some("f.bin"), name |-> Some("n")],
      [file_name |-> None,          name |-> Some("n")],
      [file_name |-> None,          name |-> None] }

Signatures == {"Eicar", "Trojan"}

(* clamav_async::engine::ScanEvent, reduced to what poll_result matches on. *)
ScanOutcomes ==
    { [ok |-> TRUE, v |-> "Clean", sig |-> ""],
      [ok |-> TRUE, v |-> "Whitelisted", sig |-> ""],
      [ok |-> FALSE, v |-> "ScanError", sig |-> ""] }
    \cup { [ok |-> TRUE, v |-> "Virus", sig |-> s] : s \in Signatures }

OtherEvent == [kind |-> "Other", r |-> None]
ResultEvent(o) == [kind |-> "Result", r |-> Some(o)]
ScanEvents == {OtherEvent} \cup { ResultEvent(o) : o \in ScanOutcomes }

(* The shared read-only context built by load_context. *)
ctx ==
    [ clamav_version |-> "1.4", db_version |-> 27, db_sig_count |-> 8, db_date |-> 0 ]

-----------------------------------------------------------------------------
(* Pure helpers *)

Take(s, n) == SubSeq(s, 1, IF Len(s) < n THEN Len(s) ELSE n)

(* Digest::update: the accumulator absorbs the chunk. *)
update(acc, chunk) == acc \o chunk

(* finalize + hex encoding of each of the three digests. *)
finalize(alg, acc) == [alg |-> alg, of |-> acc]

infer_get_or_default(buf) ==
    IF Len(buf) >= 1 /\ buf[1] = 1
    THEN Some("application/pdf")
    ELSE Some("application/octet-stream")

(* infer::get: the type whose magic number starts the buffer, if any. *)
infer_get(buf) ==
    IF Len(buf) >= 1 /\ buf[1] = 1 THEN Some("application/pdf") ELSE None

map_mp_error_as_500(err) == [status |-> INTERNAL_SERVER_ERROR, json |-> None, text |-> err]

map_mp_error_to_400(err) == [status |-> BAD_REQUEST, json |-> None, text |-> err]

map_io_error_to_500(err) == [status |-> INTERNAL_SERVER_ERROR, json |-> None, text |-> err]

AvResponseNonEmpty(results) ==
    IF results = <<>>
    THEN [status |-> BAD_REQUEST, json |-> None, text |-> "no files"]
    ELSE [ status |-> OK,
           json |-> Some([ av_version |-> ctx.clamav_version,
                           db_version |-> ctx.db_version,
                           db_sig_count |-> ctx.db_sig_count,
                           db_date |-> ctx.db_date,
                           results |-> results ]),
           text |-> "" ]

(* Ok(Json(AvResponse { .. })) at the end of upload. *)
AvResponse(results) ==
    [ status |-> OK,
      json |-> Some([ av_version |-> ctx.clamav_version,
                      db_version |-> ctx.db_version,
                      db_sig_count |-> ctx.db_sig_count,
                      db_date |-> ctx.db_date,
                      results |-> results ]),
      text |-> "" ]

(* field.file_name().or(field.name()) *)
FieldName(field) == IF IsSome(field.file_name) THEN field.file_name ELSE field.name

(* The two match expressions of scan on the engine's ScanResult. *)
ResultTag(r) ==
    CASE r.v = "Clean" -> "CLEAN"
      [] r.v = "Whitelisted" -> "WHITELISTED"
      [] r.v = "Virus" -> "VIRUS"

ResultSignatureAlways(r) == Some(r.sig)

ResultSignature(r) ==
    CASE r.v = "Clean" -> None
      [] r.v = "Whitelisted" -> None
      [] r.v = "Virus" -> Some(r.sig)

(* The AvResult built by scan from its arguments and the poll result. *)
AvResult(rq, now) ==
    [ name |-> FieldName(Unwrap(rq.field)),
      size |-> rq.size,
      crc32 |-> finalize("crc32", rq.crc32),
      md5 |-> finalize("md5", rq.md5),
      sha256 |-> finalize("sha256", rq.sha256),
      content_type |-> rq.content_type,
      date_scanned |-> now,
      result |-> ResultTag(Unwrap(rq.r)),
      signature |-> ResultSignature(Unwrap(rq.r)) ]

PushFront(results, res) == <<res>> \o results

(* results.push(..) *)
Push(results, res) == Append(results, res)

-----------------------------------------------------------------------------
(* The file system of temporary files: fs[p] is None or Some(file). *)

NewFile(r) == [owner |-> r, data |-> <<>>, synced |-> FALSE]

DropTmpLeak(files, tmp) == files

(* Drop of NamedTempFile: the file at the path is removed. *)
DropTmp(files, tmp) ==
    IF IsSome(tmp) THEN [files EXCEPT ![Unwrap(tmp)] = None] ELSE files

(* File::write of the first n bytes of the chunk at the end of the file. *)
WriteFile(files, p, chunk, n) ==
    [files EXCEPT ![p] = Some([Unwrap(@) EXCEPT !.data = @ \o SubSeq(chunk, 1, n),
                                               !.synced = FALSE])]

SyncDataSkipped(files, p) == files

(* File::sync_data: what was written is on the disk. *)
SyncData(files, p) ==
    [files EXCEPT ![p] = Some([Unwrap(@) EXCEPT !.synced = TRUE])]

-----------------------------------------------------------------------------
(* The state of one request: the locals of upload and scan, the position   *)
(* of the task, the fields the transport has delivered (arrived) and how   *)
(* many more inputs the environment may deliver (lim): a field costs 1, a  *)
(* chunk 1 plus its length, an engine event 1.  sniffed records the buffer *)
(* detect_type filled for the current field.  plan is None when the client *)
(* may send anything, or the one file the client of this request uploads.  *)

NoLocals(rq) ==
    [rq EXCEPT !.field = None, !.tmp = None, !.size = 0,
               !.crc32 = <<>>, !.md5 = <<>>, !.sha256 = <<>>, !.chunk = None,
               !.path = None, !.content_type = None, !.target = None,
               !.stream = None, !.r = None, !.sniffed = None]

Fresh(lim) ==
    [ pc |-> "next_field", lim |-> lim, arrived |-> <<>>, results |-> <<>>,
      field |-> None, tmp |-> None, size |-> 0,
      crc32 |-> <<>>, md5 |-> <<>>, sha256 |-> <<>>, chunk |-> None,
      path |-> None, content_type |-> None, target |-> None, stream |-> None,
      r |-> None, response |-> None, staged |-> 0, scans |-> 0, sniffed |-> None,
      plan |-> None ]

Idle == [Fresh(0) EXCEPT !.pc = "idle"]

(* AppConfig, reduced to the field the handlers read. *)
AppConfigDefault == [enable_shutdown_endpoint |-> FALSE]
AppConfigs == {[enable_shutdown_endpoint |-> b] : b \in BOOLEAN}

(* Mutex::new(Some(shutdown_tx)): the tokio mutex and the slot it guards.  *)
(* dropped: the last Arc of the mutex is gone, and the sender with it if   *)
(* no call had taken it.                                                   *)
NewMutex(slot) == [locked_by |-> None, slot |-> slot, dropped |-> FALSE]

(* oneshot::channel(): the value in flight, whether the receiver is gone,  *)
(* and how often Sender::send was called.                                  *)
NewChannel == [value |-> None, rx_dropped |-> FALSE, tx_dropped |-> FALSE, sends |-> 0]

(* shutdown_signal: where its select! is, the branch that completed it,    *)
(* and which of the two process signals have been delivered.  "absent" is  *)
(* the harness of the tests of main.rs, which runs no server.              *)
NewSignal(pc) == [pc |-> pc, by |-> None, ctrl_c |-> FALSE, terminate |-> FALSE]

Callers == 1..NumCallers

(* One POST /shutdown: where its handler is and the status it returned.    *)
NoCall == [pc |-> "idle", status |-> None]

ReturnPartial(rq, resp) ==
    [NoLocals(rq) EXCEPT !.pc = "done", !.results = <<>>,
                         !.response = Some([resp EXCEPT !.json =
                             IF resp.status = OK THEN resp.json
                             ELSE Some([results |-> rq.results])])]

(* upload returns: the response is fixed and every local is dropped. *)
Return(rq, resp) ==
    [NoLocals(rq) EXCEPT !.pc = "done", !.results = <<>>, !.response = Some(resp)]

CancelledDetached(rq) == [rq EXCEPT !.pc = "cancelled"]

(* The future of upload is dropped before it completes: every local of     *)
(* upload and of the scan it is awaiting goes out of scope, no response is *)
(* produced.                                                               *)
Cancelled(rq) == [NoLocals(rq) EXCEPT !.pc = "cancelled", !.results = <<>>]

NextIterationDetached(rq, res) == [NoLocals(rq) EXCEPT !.pc = "next_field"]

(* The end of one iteration of the field loop: the result is pushed and    *)
(* the locals of the iteration go out of scope.                            *)
NextIteration(rq, res) ==
    [NoLocals(rq) EXCEPT !.pc = "next_field", !.results = Push(rq.results, res)]

Init ==
    /\ req = [r \in Reqs |->
                IF r = 1
                THEN Fresh(MaxInputs)
                ELSE Idle]
    /\ fs = [p \in Paths |-> None]
    /\ clock = 0
    /\ cfg = AppConfigDefault
    /\ shutdown_tx = NewMutex(Some("shutdown_tx"))
    /\ oneshot = NewChannel
    /\ call = [c \in Callers |-> NoCall]
    /\ signal = NewSignal("select")

-----------------------------------------------------------------------------
(* upload, line 73: mp.next_field().await.map_err(map_mp_error_to_400)?    *)

NextFieldSome(r, f) ==
    /\ req[r].pc = "next_field"
    /\ req[r].lim >= 1
    /\ req' = [req EXCEPT ![r] =
                 [@ EXCEPT !.pc = "tempfile", !.field = Some(f),
                           !.arrived = Append(@, [header |-> f, body |-> <<>>]),
                           !.lim = @ - 1]]
    /\ UNCHANGED <<fs, clock, shutdownVars>>

NextFieldNone(r) ==
    /\ req[r].pc = "next_field"
    /\ req' = [req EXCEPT ![r] = Return(@, AvResponse(@.results))]
    /\ UNCHANGED <<fs, clock, shutdownVars>>

NextFieldErr(r) ==
    /\ req[r].pc = "next_field"
    /\ req' = [req EXCEPT ![r] = Return(@, map_mp_error_to_400("multipart: next_field"))]
    /\ UNCHANGED <<fs, clock, shutdownVars>>

(* upload, lines 74-81: the temporary file and the accumulators.           *)

UnusedUnchecked(files, p) == TRUE

(* tempfile(): the file is created under a name no existing file has.      *)
Unused(files, p) == files[p] = None

TempfileOk(r, p) ==
    /\ req[r].pc = "tempfile"
    /\ Unused(fs, p)
    /\ fs' = [fs EXCEPT ![p] = Some(NewFile(r))]
    /\ req' = [req EXCEPT ![r] =
                 [@ EXCEPT !.pc = "chunk", !.tmp = Some(p), !.size = 0,
                           !.crc32 = <<>>, !.md5 = <<>>, !.sha256 = <<>>,
                           !.staged = @ + 1]]
    /\ UNCHANGED <<clock, shutdownVars>>

TempfileErr(r) ==
    /\ req[r].pc = "tempfile"
    /\ req' = [req EXCEPT ![r] = Return(@, map_io_error_to_500("io: tempfile"))]
    /\ UNCHANGED <<fs, clock, shutdownVars>>

(* upload, line 82: field.chunk().await.map_err(map_mp_error_to_400)?      *)

(* The transport's record of the fields it has delivered, after it has     *)
(* handed out chunk c of the last of them.                                 *)
Delivered(arrived, c) ==
    [arrived EXCEPT ![Len(arrived)] = [@ EXCEPT !.body = @ \o c]]

ChunkSome(r, c) ==
    /\ req[r].pc = "chunk"
    /\ req[r].lim >= 1 + Len(c)
    /\ req' = [req EXCEPT ![r] =
                 [@ EXCEPT !.pc = "write", !.chunk = Some(c),
                           !.arrived = Delivered(@, c),
                           !.lim = @ - (1 + Len(c))]]
    /\ UNCHANGED <<fs, clock, shutdownVars>>

ChunkNone(r) ==
    /\ req[r].pc = "chunk"
    /\ req' = [req EXCEPT ![r] = [@ EXCEPT !.pc = "sync_data"]]
    /\ UNCHANGED <<fs, clock, shutdownVars>>

ChunkErr(r) ==
    /\ req[r].pc = "chunk"
    /\ req' = [req EXCEPT ![r] = Return(@, map_mp_error_to_400("multipart: chunk"))]
    /\ fs' = DropTmp(fs, req[r].tmp)
    /\ UNCHANGED <<clock, shutdownVars>>

(* upload, lines 83-86: tmp.write(&chunk) accepts n bytes of the chunk,    *)
(* n added to size; the three accumulators absorb the chunk. Write::write  *)
(* may accept any positive part of a non-empty buffer.                     *)

WriteCounts(chunk) == IF chunk = <<>> THEN {0} ELSE 1..Len(chunk)

WriteOk(r, n) ==
    /\ req[r].pc = "write"
    /\ n \in WriteCounts(Unwrap(req[r].chunk))
    /\ fs' = WriteFile(fs, Unwrap(req[r].tmp), Unwrap(req[r].chunk), n)
    /\ req' = [req EXCEPT ![r] =
                 [@ EXCEPT !.pc = "chunk", !.chunk = None,
                           !.size = @ + n,
                           !.crc32 = update(@, Unwrap(req[r].chunk)),
                           !.md5 = update(@, Unwrap(req[r].chunk)),
                           !.sha256 = update(@, Unwrap(req[r].chunk))]]
    /\ UNCHANGED <<clock, shutdownVars>>

WriteErr(r) ==
    /\ req[r].pc = "write"
    /\ req' = [req EXCEPT ![r] = Return(@, map_io_error_to_500("io: write"))]
    /\ fs' = DropTmp(fs, req[r].tmp)
    /\ UNCHANGED <<clock, shutdownVars>>

(* upload, line 88: tmp.as_file().sync_data().map_err(map_io_error_to_500)? *)

SyncOk(r) ==
    /\ req[r].pc = "sync_data"
    /\ fs' = SyncData(fs, Unwrap(req[r].tmp))
    /\ req' = [req EXCEPT ![r] = [@ EXCEPT !.pc = "to_str"]]
    /\ UNCHANGED <<clock, shutdownVars>>

SyncErr(r) ==
    /\ req[r].pc = "sync_data"
    /\ req' = [req EXCEPT ![r] = Return(@, map_io_error_to_500("io: sync_data"))]
    /\ fs' = DropTmp(fs, req[r].tmp)
    /\ UNCHANGED <<clock, shutdownVars>>

-----------------------------------------------------------------------------
(* scan, lines 123-126: tmp.path().to_str() fails on a non-UTF-8 path.     *)

ToStrOk(r) ==
    /\ req[r].pc = "to_str"
    /\ Unwrap(req[r].tmp) \in Utf8Paths
    /\ req' = [req EXCEPT ![r] = [@ EXCEPT !.pc = "detect_type", !.path = req[r].tmp]]
    /\ UNCHANGED <<fs, clock, shutdownVars>>

ToStrErr(r) ==
    /\ req[r].pc = "to_str"
    /\ Unwrap(req[r].tmp) \notin Utf8Paths
    /\ req' = [req EXCEPT ![r] = Return(@, map_io_error_to_500("invalid path string"))]
    /\ fs' = DropTmp(fs, req[r].tmp)
    /\ UNCHANGED <<clock, shutdownVars>>

(* detect_type, lines 157-164: the first LIMIT bytes of the file at path.  *)

read_whole(files, path, limit) == Unwrap(files[path]).data

(* file.take(LIMIT).read_to_end(&mut buf) *)
read_take(files, path, limit) == Take(Unwrap(files[path]).data, limit)

detect_type(files, path) == infer_get(read_take(files, path, LIMIT))

DetectTypeOk(r) ==
    /\ req[r].pc = "detect_type"
    /\ IsSome(fs[Unwrap(req[r].path)])
    /\ req' = [req EXCEPT ![r] =
                 [@ EXCEPT !.pc = "fmap",
                           !.sniffed = Some(read_take(fs, Unwrap(req[r].path), LIMIT)),
                           !.content_type = detect_type(fs, Unwrap(req[r].path))]]
    /\ UNCHANGED <<fs, clock, shutdownVars>>

DetectTypeErr(r) ==
    /\ req[r].pc = "detect_type"
    /\ req' = [req EXCEPT ![r] = Return(@, map_io_error_to_500("io: detect_type"))]
    /\ fs' = DropTmp(fs, req[r].tmp)
    /\ UNCHANGED <<clock, shutdownVars>>

(* scan, line 128: Fmap::from_file(File::open(path)?, 0, size, true)       *)

Fmap(files, path, offset, len) ==
    SubSeq(Unwrap(files[path]).data, offset + 1, offset + len)

FmapOk(r) ==
    /\ req[r].pc = "fmap"
    /\ IsSome(fs[Unwrap(req[r].path)])
    /\ req' = [req EXCEPT ![r] =
                 [@ EXCEPT !.pc = "engine_scan",
                           !.target = Some(Fmap(fs, Unwrap(req[r].path), 0, req[r].size))]]
    /\ UNCHANGED <<fs, clock, shutdownVars>>

FmapErr(r) ==
    /\ req[r].pc = "fmap"
    /\ req' = [req EXCEPT ![r] = Return(@, map_io_error_to_500("io: open"))]
    /\ fs' = DropTmp(fs, req[r].tmp)
    /\ UNCHANGED <<clock, shutdownVars>>

(* scan, lines 130-133: ctx.engine.scan(target, Some(path), settings)      *)

NewStream == [chan |-> <<>>, closed |-> FALSE, seen |-> <<>>]

EngineScanOk(r) ==
    /\ req[r].pc = "engine_scan"
    /\ req' = [req EXCEPT ![r] =
                 [@ EXCEPT !.pc = "poll_result", !.stream = Some(NewStream),
                           !.scans = @ + 1]]
    /\ UNCHANGED <<fs, clock, shutdownVars>>

EngineScanErr(r) ==
    /\ req[r].pc = "engine_scan"
    /\ req' = [req EXCEPT ![r] = Return(@, map_io_error_to_500("engine: scan"))]
    /\ fs' = DropTmp(fs, req[r].tmp)
    /\ UNCHANGED <<clock, shutdownVars>>

(* The engine's side of the channel behind the ReceiverStream: it sends    *)
(* events while the receiver lives, and at some point drops the sender.    *)

EngineSend(r, e) ==
    /\ IsSome(req[r].stream)
    /\ ~Unwrap(req[r].stream).closed
    /\ req[r].lim >= 1
    /\ Len(Unwrap(req[r].stream).chan) < ChanCap
    /\ req' = [req EXCEPT ![r] =
                 [@ EXCEPT !.stream = Some([Unwrap(@) EXCEPT !.chan = Append(@, e)]),
                           !.lim = @ - 1]]
    /\ UNCHANGED <<fs, clock, shutdownVars>>

EngineClose(r) ==
    /\ IsSome(req[r].stream)
    /\ ~Unwrap(req[r].stream).closed
    /\ req' = [req EXCEPT ![r] =
                 [@ EXCEPT !.stream = Some([Unwrap(@) EXCEPT !.closed = TRUE])]]
    /\ UNCHANGED <<fs, clock, shutdownVars>>

(* poll_result, lines 170-178: one rs.next().await and the match on it.    *)

NoResultDefaultClean == [ok |-> TRUE, v |-> "Clean", sig |-> ""]

(* The Err of line 178, after the stream has ended. *)
NoResult == [ok |-> FALSE, v |-> "Could not retrieve scan result", sig |-> ""]

(* The stream after rs.next() has yielded its head. *)
Consume(st) == [st EXCEPT !.chan = Tail(@), !.seen = Append(@, Head(st.chan))]

MatchOkOnly(event) ==
    IF event.kind = "Result" /\ Unwrap(event.r).ok THEN event.r ELSE None

(* What poll_result does with a yielded event: Some(r) to return r,        *)
(* None to continue with the next event.                                   *)
Match(event) == IF event.kind = "Result" THEN event.r ELSE None

PollEvent(r) ==
    LET st == Unwrap(req[r].stream)
        ret == Match(Head(st.chan))
    IN  /\ req[r].pc = "poll_result"
        /\ st.chan # <<>>
        /\ req' = [req EXCEPT ![r] =
                     [@ EXCEPT !.stream = Some(Consume(st)),
                               !.r = ret,
                               !.pc = IF IsSome(ret) THEN "polled" ELSE "poll_result"]]
        /\ UNCHANGED <<fs, clock, shutdownVars>>

EndedOrIdle(st) == st.chan = <<>>

(* rs.next() yields None: every sender is gone and nothing is buffered.    *)
Ended(st) == st.chan = <<>> /\ st.closed

PollEnd(r) ==
    LET st == Unwrap(req[r].stream)
    IN  /\ req[r].pc = "poll_result"
        /\ Ended(st)
        /\ req' = [req EXCEPT ![r] = [@ EXCEPT !.r = Some(NoResult), !.pc = "polled"]]
        /\ UNCHANGED <<fs, clock, shutdownVars>>

(* scan, lines 134-153, and upload, lines 89-102: the ? on the poll        *)
(* result, the AvResult, the push and the end of the iteration.            *)

ScanOk(r) ==
    /\ req[r].pc = "polled"
    /\ Unwrap(req[r].r).ok
    /\ req' = [req EXCEPT ![r] = NextIteration(@, AvResult(@, clock))]
    /\ clock' = clock + 1
    /\ fs' = DropTmp(fs, req[r].tmp)
    /\ UNCHANGED shutdownVars

ScanErr(r) ==
    /\ req[r].pc = "polled"
    /\ ~Unwrap(req[r].r).ok
    /\ req' = [req EXCEPT ![r] = Return(@, map_io_error_to_500(Unwrap(@.r).v))]
    /\ fs' = DropTmp(fs, req[r].tmp)
    /\ UNCHANGED <<clock, shutdownVars>>

-----------------------------------------------------------------------------

(* The .await points of upload, scan, detect_type and poll_result: the     *)
(* only positions at which the future can be dropped.                      *)
SuspensionPoints == {"next_field", "chunk", "detect_type", "poll_result"}

(* The client goes away: the server drops the future of upload at the      *)
(* .await it is suspended on; NamedTempFile's Drop removes the file.       *)
Cancel(r) ==
    /\ req[r].pc \in SuspensionPoints
    /\ req' = [req EXCEPT ![r] = Cancelled(@)]
    /\ fs' = DropTmp(fs, req[r].tmp)
    /\ UNCHANGED <<clock, shutdownVars>>

Chunks == SeqsUpTo(Byte, MaxInputs)

(* The steps of the task serving request r: each .await of upload and its  *)
(* callees completing, and the code that follows it.                       *)
Task(r) ==
    \/ \E f \in Fields : NextFieldSome(r, f)
    \/ NextFieldNone(r)
    \/ NextFieldErr(r)
    \/ \E p \in Paths : TempfileOk(r, p)
    \/ TempfileErr(r)
    \/ \E c \in Chunks : ChunkSome(r, c)
    \/ ChunkNone(r)
    \/ ChunkErr(r)
    \/ \E n \in 0..MaxInputs : WriteOk(r, n)
    \/ WriteErr(r)
    \/ SyncOk(r)
    \/ SyncErr(r)
    \/ ToStrOk(r)
    \/ ToStrErr(r)
    \/ DetectTypeOk(r)
    \/ DetectTypeErr(r)
    \/ FmapOk(r)
    \/ FmapErr(r)
    \/ EngineScanOk(r)
    \/ EngineScanErr(r)
    \/ PollEvent(r)
    \/ PollEnd(r)
    \/ ScanOk(r)
    \/ ScanErr(r)

(* The steps of the scan engine on the event stream of request r.          *)
Engine(r) ==
    \/ \E e \in ScanEvents : EngineSend(r, e)
    \/ EngineClose(r)

Next == \E r \in Reqs : Task(r) \/ Engine(r) \/ Cancel(r)

Spec == Init /\ [][Next]_vars

(* The task of a request is polled by the runtime whenever it can go on,   *)
(* every operation it awaits on the transport completes with a value, the  *)
(* end or an error, and the engine goes on feeding or closes each event    *)
(* stream while a request holds it.  The inputs of a request are finite    *)
(* (lim, one less than in Spec: enough for two scanned fields or for one   *)
(* field with content and several events).  A client may still abandon its *)
(* request.                                                                *)
InitLive ==
    /\ req = [r \in Reqs |->
                IF r = 1
                THEN Fresh(MaxInputs - 1)
                ELSE Idle]
    /\ fs = [p \in Paths |-> None]
    /\ clock = 0
    /\ cfg = AppConfigDefault
    /\ shutdown_tx = NewMutex(Some("shutdown_tx"))
    /\ oneshot = NewChannel
    /\ call = [c \in Callers |-> NoCall]
    /\ signal = NewSignal("select")

SpecLive ==
    /\ InitLive
    /\ [][Next]_vars
    /\ \A r \in Reqs : WF_vars(Task(r)) /\ WF_vars(Engine(r))

-----------------------------------------------------------------------------
(* Two requests served at the same time, as the router of main.rs allows:  *)
(* each client uploads one file, the first a two-byte file under a file    *)
(* name, the second either the same upload or a different one.  The        *)
(* transport may cut the content into chunks as it likes.  Everything else *)
(* (write counts, file names, failures, engine events, cancellation) is as *)
(* free as in Spec, and the tasks interleave in every way.                 *)

UploadA == [header |-> [file_name |-> Some("f.bin"), name |-> Some("n")], content |-> <<1, 0>>]
UploadB == [header |-> [file_name |-> None, name |-> Some("n")], content |-> <<0>>]
Uploads == {UploadA, UploadB}

(* A request with a plan is delivered its field, its content in one or    *)
(* more chunks and one engine event.                                       *)
Planned(u) == [Fresh(Len(u.content) + 3) EXCEPT !.plan = Some(u)]

IsPrefix(s, t) == Len(s) <= Len(t) /\ SubSeq(t, 1, Len(s)) = s

FieldPlanned(rq, f) ==
    /\ IsSome(rq.plan)
    /\ rq.arrived = <<>>
    /\ f = Unwrap(rq.plan).header
NoFieldPlanned(rq) == IsSome(rq.plan) /\ rq.arrived # <<>>
ChunkPlanned(rq, c) ==
    /\ rq.pc = "chunk"
    /\ IsPrefix(rq.arrived[Len(rq.arrived)].body \o c, Unwrap(rq.plan).content)
NoChunkPlanned(rq) ==
    /\ rq.pc = "chunk"
    /\ rq.arrived[Len(rq.arrived)].body = Unwrap(rq.plan).content

InitConc ==
    /\ \E u \in Uploads :
          req = [r \in Reqs |->
                   IF r = 1 THEN Planned(UploadA)
                   ELSE IF r = 2 THEN Planned(u)
                   ELSE Idle]
    /\ fs = [p \in Paths |-> None]
    /\ clock = 0
    /\ cfg = AppConfigDefault
    /\ shutdown_tx = NewMutex(Some("shutdown_tx"))
    /\ oneshot = NewChannel
    /\ call = [c \in Callers |-> NoCall]
    /\ signal = NewSignal("select")

NextConc ==
    \E r \in Reqs :
        \/ \E f \in Fields : FieldPlanned(req[r], f) /\ NextFieldSome(r, f)
        \/ NoFieldPlanned(req[r]) /\ NextFieldNone(r)
        \/ NextFieldErr(r)
        \/ \E p \in Paths : TempfileOk(r, p)
        \/ TempfileErr(r)
        \/ \E c \in Chunks : ChunkPlanned(req[r], c) /\ ChunkSome(r, c)
        \/ NoChunkPlanned(req[r]) /\ ChunkNone(r)
        \/ ChunkErr(r)
        \/ \E n \in 0..MaxInputs : WriteOk(r, n)
        \/ WriteErr(r)
        \/ SyncOk(r)
        \/ SyncErr(r)
        \/ ToStrOk(r)
        \/ ToStrErr(r)
        \/ DetectTypeOk(r)
        \/ DetectTypeErr(r)
        \/ FmapOk(r)
        \/ FmapErr(r)
        \/ EngineScanOk(r)
        \/ EngineScanErr(r)
        \/ \E e \in ScanEvents : EngineSend(r, e)
        \/ EngineClose(r)
        \/ PollEvent(r)
        \/ PollEnd(r)
        \/ ScanOk(r)
        \/ ScanErr(r)
        \/ Cancel(r)

SpecConc == InitConc /\ [][NextConc]_vars

-----------------------------------------------------------------------------
(* shutdown, lines 53-66.  A call matches on the configuration flag; when  *)
(* the endpoint is enabled it takes the mutex, takes the sender out of the *)
(* slot, fires it if there was one, and returns 202 as the guard goes out  *)
(* of scope.                                                               *)

ShutdownAlwaysEnabled(config) == TRUE

(* match cfg.enable_shutdown_endpoint *)
ShutdownEnabled(config) == config.enable_shutdown_endpoint

take_clone(slot) == [taken |-> slot, left |-> slot]

(* Option::take: the value is moved out, None is left behind. *)
take(slot) == [taken |-> slot, left |-> None]

(* oneshot::Sender::send: the value is stored unless the receiver is gone, *)
(* in which case send returns Err.                                         *)
send(chan) ==
    [chan EXCEPT !.value = IF chan.rx_dropped THEN @ ELSE Some("()"),
                 !.sends = @ + 1]

(* A POST /shutdown arrives. *)
ShutdownCall(c) ==
    /\ call[c].pc = "idle"
    /\ ~shutdown_tx.dropped
    /\ call' = [call EXCEPT ![c].pc = "match"]
    /\ UNCHANGED <<cfg, shutdown_tx, oneshot, signal, uploadVars>>

(* false => StatusCode::NOT_FOUND *)
ShutdownDisabled(c) ==
    /\ call[c].pc = "match"
    /\ ~ShutdownEnabled(cfg)
    /\ call' = [call EXCEPT ![c] = [pc |-> "done", status |-> Some(NOT_FOUND)]]
    /\ UNCHANGED <<cfg, shutdown_tx, oneshot, signal, uploadVars>>

(* let mut lock = ptr.lock().await: granted when no call holds the mutex.  *)
ShutdownLock(c) ==
    /\ call[c].pc = "match"
    /\ ShutdownEnabled(cfg)
    /\ shutdown_tx.locked_by = None
    /\ shutdown_tx' = [shutdown_tx EXCEPT !.locked_by = Some(c)]
    /\ call' = [call EXCEPT ![c].pc = "take"]
    /\ UNCHANGED <<cfg, oneshot, signal, uploadVars>>

(* lock.take().map(|sender| sender.send(())): the result of send is        *)
(* discarded.                                                              *)
ShutdownTake(c) ==
    /\ call[c].pc = "take"
    /\ shutdown_tx.locked_by = Some(c)
    /\ shutdown_tx' = [shutdown_tx EXCEPT !.slot = take(shutdown_tx.slot).left]
    /\ oneshot' = IF IsSome(take(shutdown_tx.slot).taken) THEN send(oneshot) ELSE oneshot
    /\ call' = [call EXCEPT ![c].pc = "accepted"]
    /\ UNCHANGED <<cfg, signal, uploadVars>>

(* StatusCode::ACCEPTED; the guard is dropped at the end of the arm.       *)
ShutdownAccepted(c) ==
    /\ call[c].pc = "accepted"
    /\ shutdown_tx' = [shutdown_tx EXCEPT !.locked_by = None]
    /\ call' = [call EXCEPT ![c] = [pc |-> "done", status |-> Some(ACCEPTED)]]
    /\ UNCHANGED <<cfg, oneshot, signal, uploadVars>>

(* The receiving half goes away without a server: the tests of main.rs    *)
(* drop it at once.  In main it is owned by shutdown_signal.               *)
ReceiverDropped ==
    /\ signal.pc = "absent"
    /\ ~oneshot.rx_dropped
    /\ oneshot' = [oneshot EXCEPT !.rx_dropped = TRUE]
    /\ UNCHANGED <<cfg, shutdown_tx, call, signal, uploadVars>>

(* The router, and with it the mutex, is dropped while the sender is still *)
(* in its slot: the sender is dropped without having sent.  No call is in  *)
(* flight (a call holds an Arc of the mutex) and none can follow.          *)
SenderDropped ==
    /\ ~shutdown_tx.dropped
    /\ IsSome(shutdown_tx.slot)
    /\ \A c \in Callers : call[c].pc \in {"idle", "done"}
    /\ shutdown_tx' = [shutdown_tx EXCEPT !.dropped = TRUE]
    /\ oneshot' = [oneshot EXCEPT !.tx_dropped = TRUE]
    /\ UNCHANGED <<cfg, call, signal, uploadVars>>

-----------------------------------------------------------------------------
(* shutdown_signal, main.rs lines 62-80: select! over the three futures.   *)

(* The process receives SIGINT, or SIGTERM, at any time. *)
CtrlC ==
    /\ ~signal.ctrl_c
    /\ signal' = [signal EXCEPT !.ctrl_c = TRUE]
    /\ UNCHANGED <<cfg, shutdown_tx, oneshot, call, uploadVars>>

Sigterm ==
    /\ ~signal.terminate
    /\ signal' = [signal EXCEPT !.terminate = TRUE]
    /\ UNCHANGED <<cfg, shutdown_tx, oneshot, call, uploadVars>>

RxResolvedOk(chan) == IsSome(chan.value)

(* The Receiver future is ready: with Ok(()) once a value was sent, with   *)
(* Err(RecvError) once the sender was dropped.  The pattern _ takes both.  *)
RxResolved(chan) == IsSome(chan.value) \/ chan.tx_dropped

(* select! completes with branch b; the futures it owned, the receiver     *)
(* among them, are dropped.                                                *)
Completed(sig, b) == [sig EXCEPT !.pc = "completed", !.by = Some(b)]

(* _ = ctrl_c => {} *)
SelectCtrlC ==
    /\ signal.pc = "select"
    /\ signal.ctrl_c
    /\ signal' = Completed(signal, "ctrl_c")
    /\ oneshot' = [oneshot EXCEPT !.rx_dropped = TRUE]
    /\ UNCHANGED <<cfg, shutdown_tx, call, uploadVars>>

(* _ = terminate => {} *)
SelectTerminate ==
    /\ signal.pc = "select"
    /\ signal.terminate
    /\ signal' = Completed(signal, "terminate")
    /\ oneshot' = [oneshot EXCEPT !.rx_dropped = TRUE]
    /\ UNCHANGED <<cfg, shutdown_tx, call, uploadVars>>

(* _ = shutdown_rx => {} *)
SelectRx ==
    /\ signal.pc = "select"
    /\ RxResolved(oneshot)
    /\ signal' = Completed(signal, "shutdown_rx")
    /\ oneshot' = [oneshot EXCEPT !.rx_dropped = TRUE]
    /\ UNCHANGED <<cfg, shutdown_tx, call, uploadVars>>

Select == SelectCtrlC \/ SelectTerminate \/ SelectRx

(* The server runs with any configuration app_config::load can produce.    *)
InitShutdown ==
    /\ req = [r \in Reqs |-> Idle]
    /\ fs = [p \in Paths |-> None]
    /\ clock = 0
    /\ cfg \in AppConfigs
    /\ shutdown_tx = NewMutex(Some("shutdown_tx"))
    /\ oneshot = NewChannel
    /\ call = [c \in Callers |-> NoCall]
    /\ signal \in {NewSignal("select"), NewSignal("absent")}

NextShutdown ==
    \/ \E c \in Callers :
          \/ ShutdownCall(c)
          \/ ShutdownDisabled(c)
          \/ ShutdownLock(c)
          \/ ShutdownTake(c)
          \/ ShutdownAccepted(c)
    \/ ReceiverDropped
    \/ SenderDropped
    \/ CtrlC
    \/ Sigterm
    \/ Select

SpecShutdown == InitShutdown /\ [][NextShutdown]_vars

(* The runtime polls shutdown_signal whenever one of its branches is       *)
(* ready.                                                                  *)
SpecSignal == InitShutdown /\ [][NextShutdown]_vars /\ WF_vars(Select)

-----------------------------------------------------------------------------
(* Vocabulary of the properties *)

Last(s) == s[Len(s)]

Responded(rq) == IsSome(rq.response)
Succeeded(rq) == Responded(rq) /\ Unwrap(rq.response).status = OK
Failed(rq) == Responded(rq) /\ Unwrap(rq.response).status # OK
ResponseResults(rq) == Unwrap(Unwrap(rq.response).json).results

(* The temporary files that exist and were created by request r. *)
FilesOf(r) == {p \in Paths : IsSome(fs[p]) /\ Unwrap(fs[p]).owner = r}

IsResult(e) == e.kind = "Result"
HasResult(seen) == \E i \in 1..Len(seen) : IsResult(seen[i])
FirstResult(seen) == CHOOSE i \in 1..Len(seen) :
                        IsResult(seen[i]) /\ \A j \in 1..(i - 1) : ~IsResult(seen[j])

TypeOK ==
    /\ clock \in Nat
    /\ \A p \in Paths : fs[p] = None \/ Unwrap(fs[p]).owner \in Reqs
    /\ \A r \in Reqs :
          /\ req[r].pc \in {"idle", "next_field", "tempfile", "chunk", "write", "sync_data",
                            "to_str", "detect_type", "fmap", "engine_scan", "poll_result",
                            "polled", "done", "cancelled"}
          /\ req[r].lim \in 0..MaxInputs

-----------------------------------------------------------------------------
(* C1: when upload answers with success, the results list of the response  *)
(* has one entry per field the transport delivered, and the i-th entry     *)
(* carries the name and the digested content of the i-th field.            *)
C1_ResultsInArrivalOrder ==
    \A r \in Reqs :
        Succeeded(req[r]) =>
            LET res == ResponseResults(req[r])
                arrived == req[r].arrived
            IN  /\ Len(res) = Len(arrived)
                /\ \A i \in 1..Len(res) :
                      /\ res[i].name = FieldName(arrived[i].header)
                      /\ res[i].md5.of = arrived[i].body

C1_Witness ==
    \E r \in Reqs :
        /\ Succeeded(req[r])
        /\ Len(ResponseResults(req[r])) = 2
        /\ ResponseResults(req[r])[1].name # ResponseResults(req[r])[2].name

-----------------------------------------------------------------------------
(* C2: fail-fast, all-or-nothing. An error response carries no results     *)
(* payload and the results computed so far are dropped; at most the fields *)
(* up to the failing one were staged or scanned; a success response has a  *)
(* result for every field that arrived; and once upload has returned, the  *)
(* request stages, scans and records nothing more.                         *)
C2_State ==
    \A r \in Reqs :
        LET rq == req[r]
        IN  /\ Responded(rq) <=> rq.pc = "done"
            /\ Failed(rq) =>
                  /\ Unwrap(rq.response).json = None
                  /\ rq.results = <<>>
                  /\ rq.staged \in {Len(rq.arrived) - 1, Len(rq.arrived)}
                  /\ rq.scans \in {rq.staged - 1, rq.staged}
            /\ Succeeded(rq) =>
                  /\ Len(ResponseResults(rq)) = Len(rq.arrived)
                  /\ rq.staged = Len(rq.arrived)
                  /\ rq.scans = Len(rq.arrived)

C2_Step ==
    \A r \in Reqs :
        req[r].pc = "done" => /\ req'[r] = req[r]
                              /\ FilesOf(r)' = FilesOf(r)

C2_FailFast == [](C2_State) /\ [][C2_Step]_vars

C2_Witness ==
    \E r \in Reqs :
        /\ Failed(req[r])
        /\ Len(req[r].arrived) = 2
        /\ req[r].scans = 1

-----------------------------------------------------------------------------
(* C3: a failure of next_field or of chunk is answered with 400, a failure *)
(* of any other stage with 500, and the response, once made, is never      *)
(* replaced by that of a later failure.                                    *)
C3_Step ==
    \A r \in Reqs :
        /\ (req[r].pc # "done" /\ Failed(req'[r])) =>
              Unwrap(req'[r].response).status =
                  IF req[r].pc \in {"next_field", "chunk"}
                  THEN BAD_REQUEST ELSE INTERNAL_SERVER_ERROR
        /\ Responded(req[r]) => req'[r].response = req[r].response

C3_ErrorClassification == [][C3_Step]_vars

C3_Witness ==
    \E r \in Reqs :
        /\ Failed(req[r])
        /\ Unwrap(req[r].response).status = BAD_REQUEST
        /\ req[r].staged = 1
        /\ req[r].arrived[1].body # <<>>

-----------------------------------------------------------------------------
(* C4: the reported size is the length of the byte sequence the three      *)
(* accumulators absorbed, and the three absorbed the same sequence,        *)
(* whatever the write call accepted.                                       *)
C4_SizeIsDigestedLength ==
    \A r \in Reqs :
        /\ IsSome(req[r].tmp) =>
              /\ req[r].size = Len(req[r].md5)
              /\ req[r].crc32 = req[r].md5
              /\ req[r].md5 = req[r].sha256
        /\ \A i \in 1..Len(req[r].results) :
              LET x == req[r].results[i]
              IN  /\ x.size = Len(x.md5.of)
                  /\ x.crc32.of = x.md5.of
                  /\ x.md5.of = x.sha256.of

-----------------------------------------------------------------------------
(* C5: when a field reaches the scan stage, its staged file holds every    *)
(* chunk the transport delivered, in order, and the region handed to the   *)
(* engine is the byte sequence that was digested.                          *)
C5_ScannedIsDigested ==
    \A r \in Reqs :
        IsSome(req[r].target) =>
            /\ Unwrap(fs[Unwrap(req[r].tmp)]).data = Last(req[r].arrived).body
            /\ Unwrap(req[r].target) = req[r].md5
            /\ Unwrap(req[r].target) = req[r].crc32
            /\ Unwrap(req[r].target) = req[r].sha256

-----------------------------------------------------------------------------
(* C6: poll_result returns what the first Result event of the stream       *)
(* carries: while it polls, every event it has taken was a non-result      *)
(* event and nothing has been returned; when it has returned on a Result   *)
(* event, that event is the first Result event taken from the stream and   *)
(* the last event taken at all, and the value returned is the one it       *)
(* carries; it returns without a Result event only from a stream that has  *)
(* ended with nothing left in it.                                          *)
C6_FirstResultReturned ==
    \A r \in Reqs :
        IsSome(req[r].stream) =>
            LET seen == Unwrap(req[r].stream).seen
            IN  /\ req[r].pc = "poll_result" => (req[r].r = None /\ ~HasResult(seen))
                /\ req[r].pc = "polled" => IsSome(req[r].r)
                /\ (req[r].pc = "polled" /\ HasResult(seen)) =>
                      /\ FirstResult(seen) = Len(seen)
                      /\ req[r].r = seen[FirstResult(seen)].r
                /\ (req[r].pc = "polled" /\ ~HasResult(seen)) =>
                      /\ Unwrap(req[r].stream).chan = <<>>
                      /\ Unwrap(req[r].stream).closed

C6_Witness ==
    \E r \in Reqs :
        /\ req[r].pc = "polled"
        /\ LET st == Unwrap(req[r].stream)
           IN  /\ Len(st.seen) = 2
               /\ ~IsResult(st.seen[1])
               /\ IsResult(st.seen[2])
               /\ st.chan # <<>>

-----------------------------------------------------------------------------
(* C7: no default verdict. poll_result returns a verdict only if it took a *)
(* Result event carrying that verdict; when the stream ended without a     *)
(* Result event, or the Result event carries a scan error, the request     *)
(* appends no result and its next step answers 500 without a payload.      *)
C7_State ==
    \A r \in Reqs :
        (req[r].pc = "polled" /\ Unwrap(req[r].r).ok) =>
            LET seen == Unwrap(req[r].stream).seen
            IN  /\ seen # <<>>
                /\ Last(seen) = ResultEvent(Unwrap(req[r].r))
                /\ Unwrap(req[r].r).v \in {"Clean", "Whitelisted", "Virus"}

NoVerdict(rq) ==
    /\ rq.pc = "polled"
    /\ LET seen == Unwrap(rq.stream).seen
       IN  \/ ~HasResult(seen)
           \/ ~Unwrap(seen[FirstResult(seen)].r).ok

C7_Step ==
    \A r \in Reqs :
        NoVerdict(req[r]) =>
            \/ /\ req'[r].pc = "polled"
               /\ req'[r].results = req[r].results
               /\ req'[r].r = req[r].r
            \/ /\ req'[r].pc = "done"
               /\ Unwrap(req'[r].response).status = INTERNAL_SERVER_ERROR
               /\ Unwrap(req'[r].response).json = None

C7_NoDefaultVerdict == [](C7_State) /\ [][C7_Step]_vars

C7_Witness ==
    \E r \in Reqs :
        /\ Failed(req[r])
        /\ Unwrap(req[r].response).text = "Could not retrieve scan result"
        /\ req[r].scans = 2

-----------------------------------------------------------------------------
(* C8: every AvResult has one of the tags CLEAN, WHITELISTED, VIRUS, with  *)
(* a signature exactly when the tag is VIRUS; the tag is the image of the  *)
(* engine's Clean, Whitelisted, Virus(sig) and the signature is sig.       *)
WellTagged(x) ==
    /\ x.result \in {"CLEAN", "WHITELISTED", "VIRUS"}
    /\ IsSome(x.signature) <=> x.result = "VIRUS"

C8_State ==
    \A r \in Reqs :
        /\ \A i \in 1..Len(req[r].results) : WellTagged(req[r].results[i])
        /\ Succeeded(req[r]) =>
              \A i \in 1..Len(ResponseResults(req[r])) : WellTagged(ResponseResults(req[r])[i])

C8_Step ==
    \A r \in Reqs :
        (req[r].pc = "polled" /\ req'[r].pc = "next_field") =>
            LET o == Unwrap(req[r].r)
                x == Last(req'[r].results)
            IN  \/ o.v = "Clean" /\ x.result = "CLEAN" /\ x.signature = None
                \/ o.v = "Whitelisted" /\ x.result = "WHITELISTED" /\ x.signature = None
                \/ o.v = "Virus" /\ x.result = "VIRUS" /\ x.signature = Some(o.sig)

C8_TagAndSignature == [](C8_State) /\ [][C8_Step]_vars

C8_Witness ==
    \E r \in Reqs :
        /\ Succeeded(req[r])
        /\ Len(ResponseResults(req[r])) = 2
        /\ ResponseResults(req[r])[1].result = "VIRUS"
        /\ ResponseResults(req[r])[1].signature = Some("Trojan")
        /\ ResponseResults(req[r])[2].result = "WHITELISTED"
        /\ ResponseResults(req[r])[2].signature = None

-----------------------------------------------------------------------------
(* C9: a temporary file exists only while the iteration that created it is *)
(* running, and then it is the file that iteration holds in tmp: between   *)
(* iterations and after upload has returned, with success or with any      *)
(* error, no file created by the request exists.                           *)
InIteration(rq) ==
    rq.pc \in {"chunk", "write", "sync_data", "to_str", "detect_type", "fmap",
               "engine_scan", "poll_result", "polled"}

C9_TempFilesRemoved ==
    \A r \in Reqs :
        /\ ~InIteration(req[r]) => FilesOf(r) = {}
        /\ InIteration(req[r]) => FilesOf(r) = {Unwrap(req[r].tmp)}

C9_Witness ==
    \E r \in Reqs :
        /\ Failed(req[r])
        /\ req[r].staged = 2
        /\ Unwrap(req[r].response).text = "io: sync_data"
        /\ FilesOf(r) = {}

-----------------------------------------------------------------------------
(* C10: fields are processed one after another. A request holds at most    *)
(* one temporary file and at most one engine stream; the next field is     *)
(* pulled, and its file created, only when every earlier field has its     *)
(* result in results; the stream in flight belongs to the one field whose  *)
(* result is still missing.                                                *)
C10_Sequential ==
    \A r \in Reqs :
        LET rq == req[r]
        IN  /\ Cardinality(FilesOf(r)) <= 1
            /\ rq.pc \notin {"done", "idle", "cancelled"} =>
                  /\ rq.scans <= rq.staged
                  /\ rq.staged <= Len(rq.arrived)
                  /\ Len(rq.results) <= rq.scans
                  /\ Len(rq.arrived) - Len(rq.results) <= 1
                  /\ rq.pc = "next_field" =>
                        /\ Len(rq.results) = Len(rq.arrived)
                        /\ rq.staged = Len(rq.arrived)
                        /\ rq.scans = Len(rq.arrived)
                  /\ rq.pc = "tempfile" =>
                        /\ Len(rq.results) = Len(rq.arrived) - 1
                        /\ rq.staged = Len(rq.results)
                        /\ rq.scans = Len(rq.results)
                  /\ IsSome(rq.stream) =>
                        /\ rq.scans = Len(rq.results) + 1
                        /\ rq.staged = rq.scans
                        /\ FilesOf(r) = {Unwrap(rq.tmp)}

C10_Witness ==
    \E r \in Reqs :
        /\ req[r].pc = "poll_result"
        /\ Len(req[r].results) = 1
        /\ Len(req[r].arrived) = 2
        /\ Cardinality(FilesOf(r)) = 1

-----------------------------------------------------------------------------
(* C11: a request whose field sequence is empty succeeds: the transport    *)
(* reporting the end of the fields before any field makes upload return    *)
(* status 200 with an empty result list and the four metadata values of    *)
(* the shared context; no temporary file was created and the engine was    *)
(* never called.  The only other way to answer before a first field is the *)
(* transport's own error.                                                  *)
C11_EmptyRequestSucceeds ==
    \A r \in Reqs :
        (Responded(req[r]) /\ req[r].arrived = <<>>) =>
            LET resp == Unwrap(req[r].response)
            IN  /\ \/ /\ resp.status = OK
                      /\ resp.json = Some([ av_version |-> "1.4", db_version |-> 27,
                                            db_sig_count |-> 8, db_date |-> 0,
                                            results |-> <<>> ])
                   \/ /\ resp.status = BAD_REQUEST
                      /\ resp.text = "multipart: next_field"
                /\ req[r].staged = 0
                /\ req[r].scans = 0
                /\ FilesOf(r) = {}

C11_Witness ==
    \E r \in Reqs :
        /\ Succeeded(req[r])
        /\ req[r].arrived = <<>>
        /\ ResponseResults(req[r]) = <<>>

-----------------------------------------------------------------------------
(* C12: cancellation cleans up.  When upload is abandoned at any of its    *)
(* suspension points (awaiting the next field, the next chunk, the sniffing *)
(* read or the engine's event stream) the temporary file in progress is    *)
(* removed with the locals, and nothing of the request goes on afterwards: *)
(* no file of it exists or is created, it holds no event stream for the    *)
(* engine to feed, and its state never changes again.                      *)
C12_State ==
    \A r \in Reqs :
        req[r].pc = "cancelled" =>
            /\ FilesOf(r) = {}
            /\ req[r].tmp = None
            /\ req[r].target = None
            /\ req[r].stream = None
            /\ req[r].response = None

C12_Step ==
    \A r \in Reqs :
        /\ req[r].pc = "cancelled" => req'[r] = req[r]
        /\ (req[r].pc # "cancelled" /\ req'[r].pc = "cancelled") =>
              /\ req[r].pc \in {"next_field", "chunk", "detect_type", "poll_result"}
              /\ \A p \in Paths : fs'[p] # fs[p] => (req[r].tmp = Some(p) /\ fs'[p] = None)

-----------------------------------------------------------------------------
(* C14: the sniffer is bounded and read-only.  Whatever the size of the    *)
(* staged file, detect_type reads at most LIMIT bytes, taken from the start *)
(* of the file, and writes nothing: the files, the size and the three      *)
(* digest accumulators are the same after the sniff as before it.          *)
C14_State ==
    \A r \in Reqs :
        IsSome(req[r].sniffed) =>
            LET buf == Unwrap(req[r].sniffed)
                data == Unwrap(fs[Unwrap(req[r].path)]).data
            IN  /\ Len(buf) <= LIMIT
                /\ Len(buf) <= Len(data)
                /\ \A i \in 1..Len(buf) : buf[i] = data[i]
                /\ Len(buf) = LIMIT \/ Len(buf) = Len(data)

C14_Step ==
    \A r \in Reqs :
        (req[r].pc = "detect_type" /\ req'[r].pc = "fmap") =>
            /\ fs' = fs
            /\ req'[r].size = req[r].size
            /\ req'[r].crc32 = req[r].crc32
            /\ req'[r].md5 = req[r].md5
            /\ req'[r].sha256 = req[r].sha256

C14_SnifferBoundedReadOnly == [](C14_State) /\ [][C14_Step]_vars

(* A file longer than LIMIT has been sniffed. *)
C14_Witness ==
    \E r \in Reqs :
        /\ req[r].pc = "fmap"
        /\ IsSome(req[r].sniffed)
        /\ Len(Unwrap(fs[Unwrap(req[r].path)]).data) > LIMIT
        /\ Len(Unwrap(req[r].sniffed)) = LIMIT

-----------------------------------------------------------------------------
(* C15: an undetermined type is not an error.  When no known signature     *)
(* starts the sniffed bytes, detect_type returns "absent" and the field    *)
(* goes on to be scanned: its result is recorded with contentType absent   *)
(* and the request is not aborted.  Sniffing fails only with the I/O error *)
(* of opening or reading the file, which upload answers with status 500.   *)
StartsWithMagic(bytes) == Len(bytes) >= 1 /\ bytes[1] = 1

C15_Step ==
    \A r \in Reqs :
        req[r].pc = "detect_type" =>
            LET data == Unwrap(fs[Unwrap(req[r].path)]).data
            IN  \/ req'[r] = req[r]
                \/ /\ req'[r].pc = "fmap"
                   /\ req'[r].response = None
                   /\ StartsWithMagic(data) => req'[r].content_type = Some("application/pdf")
                   /\ ~StartsWithMagic(data) => req'[r].content_type = None
                \/ /\ req'[r].pc = "done"
                   /\ Unwrap(req'[r].response).status = INTERNAL_SERVER_ERROR
                   /\ Unwrap(req'[r].response).text = "io: detect_type"
                \/ req'[r].pc = "cancelled"

C15_State ==
    \A r \in Reqs :
        /\ \A i \in 1..Len(req[r].results) :
              LET x == req[r].results[i]
              IN  IF StartsWithMagic(x.md5.of)
                  THEN x.content_type = Some("application/pdf")
                  ELSE x.content_type = None
        /\ req[r].pc \in {"engine_scan", "poll_result", "polled"} =>
              (req[r].content_type = None <=>
                  ~StartsWithMagic(Unwrap(fs[Unwrap(req[r].path)]).data))

C15_UndeterminedTypeIsNoError == [](C15_State) /\ [][C15_Step]_vars

(* A request has succeeded with a field of undetermined type, staged with  *)
(* content and scanned.                                                    *)
C15_Witness ==
    \E r \in Reqs :
        /\ Succeeded(req[r])
        /\ req[r].scans = 1
        /\ Len(ResponseResults(req[r])) = 1
        /\ ResponseResults(req[r])[1].content_type = None
        /\ ResponseResults(req[r])[1].size > 0

-----------------------------------------------------------------------------
(* C20: the stages of one field run in a fixed order: every chunk is       *)
(* written and digested until the transport reports the end of the field,  *)
(* then the file is synced, then sniffed, then submitted to the engine,    *)
(* then the terminal event is awaited, then the result is appended.        *)
(* Neither the sniffer nor the engine reads a file before its last write   *)
(* has returned and sync_data has succeeded; a failed sync_data ends the   *)
(* request with neither having run for that field.                         *)
Staging == {"chunk", "write", "sync_data"}
Scanning == {"to_str", "detect_type", "fmap", "engine_scan", "poll_result", "polled"}

C20_State ==
    \A r \in Reqs :
        LET rq == req[r]
        IN  /\ rq.pc \in Staging =>
                  /\ rq.sniffed = None
                  /\ rq.content_type = None
                  /\ rq.target = None
                  /\ rq.stream = None
                  /\ rq.r = None
                  /\ rq.scans = Len(rq.results)
            /\ rq.pc \in Scanning =>
                  /\ rq.chunk = None
                  /\ Unwrap(fs[Unwrap(rq.tmp)]).synced
                  /\ Len(Unwrap(fs[Unwrap(rq.tmp)]).data) = rq.size
            /\ IsSome(rq.target) => IsSome(rq.sniffed)
            /\ IsSome(rq.stream) => IsSome(rq.target)
            /\ IsSome(rq.r) =>
                  /\ IsSome(rq.stream)
                  /\ Unwrap(rq.r).ok => HasResult(Unwrap(rq.stream).seen)

C20_Step ==
    \A r \in Reqs :
        LET rq == req[r]
            nx == req'[r]
        IN  /\ (rq.pc # "sync_data" /\ nx.pc = "sync_data") =>
                  (rq.pc = "chunk" /\ nx.arrived = rq.arrived /\ nx.lim = rq.lim)
            /\ (rq.pc # "to_str" /\ nx.pc = "to_str") => rq.pc = "sync_data"
            /\ (rq.pc = "sync_data" /\ nx.pc = "done") =>
                  /\ Unwrap(nx.response).status = INTERNAL_SERVER_ERROR
                  /\ nx.scans = Len(rq.results)
                  /\ rq.sniffed = None
            /\ (rq.sniffed = None /\ IsSome(nx.sniffed)) =>
                  (rq.pc = "detect_type" /\ Unwrap(fs[Unwrap(rq.path)]).synced)
            /\ (rq.target = None /\ IsSome(nx.target)) =>
                  (rq.pc = "fmap" /\ Unwrap(fs[Unwrap(rq.path)]).synced)
            /\ (rq.stream = None /\ IsSome(nx.stream)) => rq.pc = "engine_scan"
            /\ Len(nx.results) > Len(rq.results) =>
                  (rq.pc = "polled" /\ Unwrap(rq.r).ok /\ nx.pc = "next_field")
            /\ \A p \in Paths :
                  (IsSome(fs[p]) /\ IsSome(fs'[p]) /\ fs'[p] # fs[p] /\ rq.tmp = Some(p)) =>
                      rq.pc \in Staging

C20_StageOrder == [](C20_State) /\ [][C20_Step]_vars

(* A field with content is written, synced, sniffed and submitted, and the *)
(* request is awaiting the engine's events.                                *)
C20_Witness ==
    \E r \in Reqs :
        /\ req[r].pc = "poll_result"
        /\ Unwrap(fs[Unwrap(req[r].tmp)]).synced
        /\ Unwrap(fs[Unwrap(req[r].tmp)]).data # <<>>
        /\ IsSome(req[r].sniffed)
        /\ IsSome(req[r].target)

-----------------------------------------------------------------------------
(* Vocabulary of the shutdown properties *)

CallDone(c) == call[c].pc = "done"
SenderAvailable == shutdown_tx.slot = Some("shutdown_tx")

-----------------------------------------------------------------------------
(* C16: with the shutdown endpoint disabled, every POST /shutdown returns  *)
(* 404, never acquires the mutex, never takes the sender and sends no      *)
(* signal, however many calls are made; the sender stays in its slot.      *)
C16_DisabledLeavesSender ==
    ~cfg.enable_shutdown_endpoint =>
        /\ SenderAvailable
        /\ shutdown_tx.locked_by = None
        /\ oneshot.sends = 0
        /\ oneshot.value = None
        /\ \A c \in Callers :
              /\ call[c].pc \in {"idle", "match", "done"}
              /\ CallDone(c) => call[c].status = Some(404)

(* Every caller has been answered by the disabled endpoint. *)
C16_Witness ==
    /\ ~cfg.enable_shutdown_endpoint
    /\ \A c \in Callers : CallDone(c) /\ call[c].status = Some(404)
    /\ SenderAvailable

-----------------------------------------------------------------------------
(* C17: with the shutdown endpoint enabled, however the calls interleave,  *)
(* Sender::send is called at most once: only the call that finds the       *)
(* sender in the slot, holding the mutex, takes and uses it, and the slot  *)
(* is empty ever after.  Every call returns 202, also a call that finds    *)
(* the slot empty and the call whose send finds the receiver dropped.      *)
C17_State ==
    cfg.enable_shutdown_endpoint =>
        /\ oneshot.sends <= 1
        /\ oneshot.sends = 1 <=> shutdown_tx.slot = None
        /\ \A c \in Callers : CallDone(c) => call[c].status = Some(202)
        /\ \A c, d \in Callers :
              (call[c].pc \in {"take", "accepted"} /\ call[d].pc \in {"take", "accepted"})
                  => c = d

C17_Step ==
    /\ shutdown_tx.slot = None => shutdown_tx'.slot = None
    /\ oneshot'.sends # oneshot.sends =>
          /\ SenderAvailable
          /\ \E c \in Callers : call[c].pc = "take" /\ shutdown_tx.locked_by = Some(c)

C17_SignalAtMostOnce == [](C17_State) /\ [][C17_Step]_vars

(* All callers were answered 202: one took the sender and sent to a        *)
(* receiver that was already dropped, the others found the slot empty.     *)
C17_Witness ==
    /\ cfg.enable_shutdown_endpoint
    /\ \A c \in Callers : CallDone(c) /\ call[c].status = Some(202)
    /\ oneshot.sends = 1
    /\ oneshot.rx_dropped
    /\ oneshot.value = None
    /\ shutdown_tx.slot = None

-----------------------------------------------------------------------------
(* C13: concurrent requests do not interfere.  Under every interleaving of *)
(* the requests being served, no two temporary files alive at the same     *)
(* time share a path; the file a request sniffs and scans is the one it    *)
(* staged itself, holding only bytes that request wrote; and the results   *)
(* of a request, in flight and in its response, are those of its own       *)
(* fields.  The context ctx is the only thing the requests share, and no   *)
(* action changes it.                                                      *)
BytesOf(s) == {s[i] : i \in 1..Len(s)}

OwnResults(rq, results) ==
    /\ Len(results) <= Len(rq.arrived)
    /\ \A i \in 1..Len(results) :
          /\ results[i].name = FieldName(rq.arrived[i].header)
          /\ results[i].md5.of = rq.arrived[i].body
          /\ results[i].sha256.of = rq.arrived[i].body
          /\ results[i].crc32.of = rq.arrived[i].body

-----------------------------------------------------------------------------
(* C18: the digests and the size of a field do not depend on how the       *)
(* transport cut its content into chunks: for every field of a successful  *)
(* response, crc32, md5 and sha256 are the digests of the whole byte       *)
(* sequence delivered for the field, and size is its length, as they are   *)
(* when the sequence arrives in a single chunk that is stored whole.       *)
C18_ChunkBoundaryInvariant ==
    \A r \in Reqs :
        Succeeded(req[r]) =>
            \A i \in 1..Len(ResponseResults(req[r])) :
                LET x == ResponseResults(req[r])[i]
                    bytes == req[r].arrived[i].body
                IN  /\ x.crc32 = [alg |-> "crc32", of |-> bytes]
                    /\ x.md5 = [alg |-> "md5", of |-> bytes]
                    /\ x.sha256 = [alg |-> "sha256", of |-> bytes]
                    /\ x.size = Len(bytes)

-----------------------------------------------------------------------------
(* C19: determinism across requests.  Two requests that upload the same    *)
(* bytes under the same name, with the same context and the same verdict   *)
(* of the engine, get results that agree in every field other than         *)
(* dateScanned, whatever temporary file names were used and however the    *)
(* two requests were interleaved.                                          *)
SameUpload(r1, i, r2, j) ==
    /\ FieldName(req[r1].arrived[i].header) = FieldName(req[r2].arrived[j].header)
    /\ req[r1].arrived[i].body = req[r2].arrived[j].body

C19_DeterministicAcrossRequests ==
    \A r1, r2 \in Reqs :
        (Succeeded(req[r1]) /\ Succeeded(req[r2])) =>
            \A i \in 1..Len(ResponseResults(req[r1])), j \in 1..Len(ResponseResults(req[r2])) :
                LET x == ResponseResults(req[r1])[i]
                    y == ResponseResults(req[r2])[j]
                IN  (SameUpload(r1, i, r2, j) /\ x.result = y.result /\ x.signature = y.signature)
                        => [x EXCEPT !.date_scanned = 0] = [y EXCEPT !.date_scanned = 0]

-----------------------------------------------------------------------------
(* C21: every upload request that its client does not abandon eventually   *)
(* produces exactly one response, success or error, given that its fields  *)
(* are finitely many, every chunk stream ends or fails and the engine's    *)
(* event stream of every submission yields a Result event or closes: the   *)
(* request comes to rest answered, the answer is never replaced, and an    *)
(* abandoned request has none.  The handler has no timeout of its own:     *)
(* while a submission's stream is open and empty the task takes no step,   *)
(* the request stays unanswered and its temporary file stays in place.     *)
Settled(rq) == rq.pc \in {"done", "cancelled"}

AwaitingEngine(rq) ==
    /\ rq.pc = "poll_result"
    /\ Unwrap(rq.stream).chan = <<>>
    /\ ~Unwrap(rq.stream).closed

C21_State ==
    \A r \in Reqs :
        /\ Responded(req[r]) <=> req[r].pc = "done"
        /\ AwaitingEngine(req[r]) => FilesOf(r) = {Unwrap(req[r].tmp)}

C21_Step ==
    \A r \in Reqs :
        /\ Responded(req[r]) => req'[r].response = req[r].response
        /\ AwaitingEngine(req[r]) =>
              \/ req'[r].pc = "cancelled"
              \/ /\ req'[r].pc = "poll_result"
                 /\ req'[r].response = None
                 /\ req'[r].results = req[r].results
                 /\ fs' = fs

C21_EventuallyOneResponse ==
    /\ <>(\A r \in Reqs : req[r].pc # "idle" => Settled(req[r]))
    /\ [](C21_State)
    /\ [][C21_Step]_vars

(* A request with two fields, each scanned to a Result event, is answered. *)
C21_Witness ==
    \E r \in Reqs :
        /\ Succeeded(req[r])
        /\ req[r].scans = 2
        /\ Len(ResponseResults(req[r])) = 2

-----------------------------------------------------------------------------
(* C22: shutdown_signal completes, and with it graceful shutdown starts,   *)
(* on the first of three events: Ctrl+C, SIGTERM, or the one-shot channel  *)
(* resolving.  It completes only on such an event, and one is enough.  A   *)
(* POST /shutdown that takes the sender always makes it complete, and so   *)
(* does the sender being dropped unsent.  Once it has completed, nothing   *)
(* that happens later (a signal, a call, a drop) changes it or reaches the *)
(* channel.                                                                *)
SignalCompleted == signal.pc = "completed"
SenderTaken == shutdown_tx.slot = None
SenderGone == oneshot.tx_dropped

C22_State ==
    /\ SignalCompleted =>
          /\ signal.by \in {Some("ctrl_c"), Some("terminate"), Some("shutdown_rx")}
          /\ signal.by = Some("ctrl_c") => signal.ctrl_c
          /\ signal.by = Some("terminate") => signal.terminate
          /\ signal.by = Some("shutdown_rx") => (oneshot.value = Some("()") \/ SenderGone)
          /\ oneshot.rx_dropped
    /\ signal.pc = "select" =>
          /\ signal.by = None
          /\ ~oneshot.rx_dropped
          /\ SenderTaken => oneshot.value = Some("()")

C22_Step ==
    SignalCompleted =>
        /\ signal'.pc = "completed"
        /\ signal'.by = signal.by
        /\ oneshot'.value = oneshot.value
        /\ oneshot'.rx_dropped

C22_ShutdownSignal ==
    /\ [](C22_State)
    /\ [][C22_Step]_vars
    /\ (signal.pc = "select" /\ (signal.ctrl_c \/ signal.terminate \/ SenderTaken \/ SenderGone))
          ~> SignalCompleted

(* shutdown_signal has completed on the channel alone, after a call took   *)
(* the sender and sent; a later call has been answered since.              *)
C22_Witness ==
    /\ SignalCompleted
    /\ signal.by = Some("shutdown_rx")
    /\ ~signal.ctrl_c
    /\ ~signal.terminate
    /\ oneshot.sends = 1
    /\ \A c \in Callers : CallDone(c)

====
